---- MODULE Spec2Model ----
(***************************************************************************)
(* A model of figma-variables (src/index.js): the CSS custom-property      *)
(* transformer.  transformCSS reads an input file, parses its              *)
(* declarations (parseVariables), rewrites them into three tables          *)
(* (processVariables), renders the tables (generateOutput) and writes the  *)
(* output file; any exception ends the process with exit code 1.           *)
(*                                                                         *)
(* Representation.                                                         *)
(*  - A variable name is the sequence of its "-"-separated tokens:         *)
(*    "border-border-xs" is <<"border","border","xs">>.  The string tests  *)
(*    of the code (startsWith, endsWith, the anchored regular expressions) *)
(*    are written on that sequence.                                        *)
(*  - A value is a record: a literal text, or one var(--X) reference, or a *)
(*    value synthesised by the code (a clamp(), a number followed by rem), *)
(*    or JavaScript's undefined.                                           *)
(*  - The input file is a sequence of lines, one declaration per line (the *)
(*    shape of the Figma export) or a line without any declaration.        *)
(*  - The output text is the sequence of its lines.                        *)
(***************************************************************************)
EXTENDS Integers, Sequences, FiniteSets, TLC

VARIABLES
    pool,        \* the lines the exporter may still append to the input file
    inputFile,   \* the input file: a sequence of lines, or NoFile
    outputFile,  \* the output file: a sequence of output lines, or NoFile
    pc,          \* "editing" (transformCSS not yet run), "done", "failed"
    exitCode,    \* the exit code of the process once it has ended, else -1
    stderr,      \* console.error: the messages reported by the catch block
    warnings,    \* console.warn: the names reported 'Variable no agrupada'
    variables,   \* transformCSS's local: the raw table (parseVariables)
    processed,   \* transformCSS's local: the three tables (processVariables)
    output       \* transformCSS's local: the text built by generateOutput

vars == <<pool, inputFile, outputFile, pc, exitCode, stderr, warnings,
          variables, processed, output>>

(***************************************************************************)
(* Bounds of the model.                                                    *)
(***************************************************************************)
MaxDecls == 3

(***************************************************************************)
(* Names: token sequences and the string tests of the code on them.        *)
(***************************************************************************)

\* s.startsWith(p + "-"), p the string of the tokens p
StartsWithDash(name, p) ==
    /\ Len(name) > Len(p)
    /\ SubSeq(name, 1, Len(p)) = p

\* s.endsWith("-" + p)
EndsWithDash(name, p) ==
    /\ Len(name) > Len(p)
    /\ SubSeq(name, Len(name) - Len(p) + 1, Len(name)) = p

\* s.replace(/-<p>$/, "") for a name that ends with "-" + p
DropLast(name, k) == SubSeq(name, 1, Len(name) - k)

\* Tokens of the model of which another token of the model is a proper
\* string prefix: <<p, t>> says that the string t starts with the string p.
TokenExtensions == { <<"text", "texture">>, <<"border", "borders">> }

TokStartsWith(tok, p) == tok = p \/ <<p, tok>> \in TokenExtensions

\* s.startsWith(p), p the string of the tokens p, without a trailing "-"
StartsWithStr(name, p) ==
    /\ Len(name) >= Len(p)
    /\ SubSeq(name, 1, Len(p) - 1) = SubSeq(p, 1, Len(p) - 1)
    /\ TokStartsWith(name[Len(p)], p[Len(p)])

\* s.replace(/^<from>-/, "<to>-")
ReplacePrefix(name, from, to) ==
    IF StartsWithDash(name, from)
    THEN to \o SubSeq(name, Len(from) + 1, Len(name))
    ELSE name

\* The tokens that are decimal digit strings, with parseInt of each.
DigitValue ==
    ("0" :> 0) @@ ("1" :> 1) @@ ("2" :> 2) @@ ("3" :> 3) @@ ("4" :> 4) @@
    ("24" :> 24) @@ ("50" :> 50) @@ ("100" :> 100) @@ ("500" :> 500) @@
    ("950" :> 950)

IsDigits(tok) == tok \in DOMAIN DigitValue

parseInt(tok) == DigitValue[tok]

(***************************************************************************)
(* Values.                                                                 *)
(***************************************************************************)
Lit(s) == [kind |-> "lit", text |-> s, ref |-> <<>>]

\* the text var(--<n>)
VarRef(n) == [kind |-> "var", text |-> "var", ref |-> n]

\* JavaScript's undefined (a missing key read from a table)
Undefined == [kind |-> "undef", text |-> "undefined", ref |-> <<>>]

\* !v is false: v is neither undefined nor the empty string
Truthy(v) == v.kind # "undef" /\ v # Lit("")

(***************************************************************************)
(* Tables: JavaScript objects with string keys, in insertion order.        *)
(***************************************************************************)
EmptyTable == <<>>

Keys(t) == { t[i].name : i \in DOMAIN t }

Range(seq) == { seq[i] : i \in DOMAIN seq }

Has(t, n) == n \in Keys(t)

\* t[n]
Get(t, n) ==
    IF Has(t, n)
    THEN t[CHOOSE i \in DOMAIN t : t[i].name = n].value
    ELSE Undefined

PutFirstWins(t, n, v) ==
    IF Has(t, n) THEN t ELSE Append(t, [name |-> n, value |-> v])

\* t[n] = v: an existing key keeps its position and takes the new value
Put(t, n, v) ==
    IF Has(t, n)
    THEN [i \in DOMAIN t |->
             IF t[i].name = n THEN [name |-> n, value |-> v] ELSE t[i]]
    ELSE Append(t, [name |-> n, value |-> v])

(***************************************************************************)
(* Lines of the input file.                                                *)
(***************************************************************************)
\* the line "  --<name>: <value>;"
Decl(n, v) == [decl |-> TRUE, name |-> n, value |-> v]

\* a line that holds no "--" at all: a brace, a selector, a blank line
Other == [decl |-> FALSE, name |-> <<>>, value |-> Lit("")]

\* what stands for the content of a path where no file is
NoFile == <<[errno |-> "ENOENT"]>>

(***************************************************************************)
(* parseVariables                                                          *)
(***************************************************************************)
RECURSIVE parseVariablesFrom(_, _)
parseVariablesFrom(content, acc) ==
    IF content = <<>> THEN acc
    ELSE LET line == Head(content) IN
         parseVariablesFrom(Tail(content),
             IF line.decl THEN Put(acc, line.name, line.value) ELSE acc)

parseVariables(content) == parseVariablesFrom(content, EmptyTable)

(***************************************************************************)
(* simplifyName, simplifyVariableReferences                                *)
(***************************************************************************)
\* A variant whose surface pattern is /^surface-/ and removes it.
simplifyNameShortPattern(name) ==
    LET n1 == ReplacePrefix(name, <<"border", "border">>, <<"border">>)
        n2 == ReplacePrefix(n1, <<"size", "size">>, <<"size">>)
        n3 == ReplacePrefix(n2, <<"surface">>, <<>>)
        n4 == ReplacePrefix(n3, <<"text", "text">>, <<"text">>)
        n5 == ReplacePrefix(n4, <<"icon", "icon">>, <<"icon">>)
        n6 == ReplacePrefix(n5, <<"outline", "outline">>, <<"outline">>)
    IN  ReplacePrefix(n6, <<"typography", "font">>, <<"font", "family">>)

simplifyName(name) ==
    LET n1 == ReplacePrefix(name, <<"border", "border">>, <<"border">>)
        n2 == ReplacePrefix(n1, <<"size", "size">>, <<"size">>)
        n3 == ReplacePrefix(n2, <<"surface", "surface">>, <<"surface">>)
        n4 == ReplacePrefix(n3, <<"text", "text">>, <<"text">>)
        n5 == ReplacePrefix(n4, <<"icon", "icon">>, <<"icon">>)
        n6 == ReplacePrefix(n5, <<"outline", "outline">>, <<"outline">>)
    IN  ReplacePrefix(n6, <<"typography", "font">>, <<"font", "family">>)

simplifyVariableReferences(value) ==
    IF value.kind # "var" THEN value
    ELSE VarRef(simplifyName(value.ref))

(***************************************************************************)
(* processVariables: the three loops over Object.entries(variables).       *)
(***************************************************************************)
EmptyResult ==
    [primitives |-> EmptyTable, lightMode |-> EmptyTable, darkMode |-> EmptyTable]

IsLightMode(name) == EndsWithDash(name, <<"light", "mode">>)
IsDarkMode(name) == EndsWithDash(name, <<"dark", "mode">>)

\* "Skip variables not in expected output"
IsSkipped(name) ==
    \/ StartsWithDash(name, <<"font", "size", "mid">>)
    \/ StartsWithDash(name, <<"font", "weight">>)
    \/ StartsWithDash(name, <<"type">>)
    \/ StartsWithDash(name, <<"viewport">>)

\* A variant that files each mode under the other mode's table.
separateModeSwapped(result, name, value) ==
    IF IsLightMode(name)
    THEN [result EXCEPT !.darkMode =
            Put(@, simplifyName(DropLast(name, 2)), simplifyVariableReferences(value))]
    ELSE IF IsDarkMode(name)
    THEN [result EXCEPT !.lightMode =
            Put(@, simplifyName(DropLast(name, 2)), simplifyVariableReferences(value))]
    ELSE result

\* One iteration of "Separate mode variables".
separateMode(result, name, value) ==
    IF IsLightMode(name)
    THEN [result EXCEPT !.lightMode =
            Put(@, simplifyName(DropLast(name, 2)), simplifyVariableReferences(value))]
    ELSE IF IsDarkMode(name)
    THEN [result EXCEPT !.darkMode =
            Put(@, simplifyName(DropLast(name, 2)), simplifyVariableReferences(value))]
    ELSE result

RECURSIVE separateModes(_, _)
separateModes(entries, result) ==
    IF entries = <<>> THEN result
    ELSE separateModes(Tail(entries),
                       separateMode(result, Head(entries).name, Head(entries).value))

RadiiFull == <<"radii", "full">>
SpacingPx == <<"spacing", "px">>

\* A variant that takes the value of the -rem sibling.
keepPxValueRem(vars_, baseName) == Get(vars_, baseName \o <<"rem">>)

\* "Exceptions: keep px version for font-size, radii-full, spacing-px"
keepPxValue(vars_, baseName) == Get(vars_, baseName)

\* let cleanValue = value === "0rem" ? "0" : value
cleanRemValue(value) == IF value = Lit("0rem") THEN Lit("0") ELSE value

\* let cleanValue = value === "0px" ? "0" : value
cleanPxValue(value) == IF value = Lit("0px") THEN Lit("0") ELSE value

\* A variant that forgets the dark-mode suffix.
IsModeVariableLightOnly(name) == IsLightMode(name)

\* "Skip mode variables"
IsModeVariable(name) == IsLightMode(name) \/ IsDarkMode(name)

\* One iteration of "Process primitives" ("Handle -rem suffix"); acc holds
\* result.primitives and the set processed.
handleRem(vars_, acc, name, value) ==
    IF IsModeVariable(name) THEN acc
    ELSE IF IsSkipped(name) THEN acc
    ELSE IF ~EndsWithDash(name, <<"rem">>) THEN acc
    ELSE
      LET baseName == DropLast(name, 1) IN
      IF \/ StartsWithDash(baseName, <<"font", "size">>)
         \/ baseName = RadiiFull
         \/ baseName = SpacingPx
      THEN IF baseName = RadiiFull \/ baseName = SpacingPx
           THEN [primitives |-> Put(acc.primitives, baseName, keepPxValue(vars_, baseName)),
                 processed |-> acc.processed \cup {baseName}]
           ELSE acc
      ELSE
        LET cleanValue == cleanRemValue(value)
            cleanName == simplifyName(baseName)
        IN  [primitives |->
                IF StartsWithDash(baseName, <<"typography", "font">>)
                THEN Put(acc.primitives, cleanName, Get(vars_, baseName))
                ELSE Put(acc.primitives, cleanName, cleanValue),
             processed |-> acc.processed \cup {baseName, name}]

RECURSIVE handleRems(_, _, _)
handleRems(vars_, entries, acc) ==
    IF entries = <<>> THEN acc
    ELSE handleRems(vars_, Tail(entries),
                    handleRem(vars_, acc, Head(entries).name, Head(entries).value))

\* One iteration of "Add variables without -rem suffix".
addNonRem(vars_, acc, name, value) ==
    IF name \in acc.processed \/ EndsWithDash(name, <<"rem">>) THEN acc
    ELSE IF IsModeVariable(name) THEN acc
    ELSE IF IsSkipped(name) THEN acc
    ELSE
      LET remName == name \o <<"rem">> IN
      IF Truthy(Get(vars_, remName)) THEN acc
      ELSE
        LET cleanValue == cleanPxValue(value)
            cleanName == simplifyName(name)
            resolved ==
              IF /\ StartsWithDash(name, <<"font", "family">>)
                 /\ cleanValue.kind = "var"
                 /\ StartsWithDash(cleanValue.ref, <<"typography", "font">>)
              THEN IF Truthy(Get(vars_, cleanValue.ref))
                   THEN Get(vars_, cleanValue.ref)
                   ELSE cleanValue
              ELSE cleanValue
        IN  [acc EXCEPT !.primitives = Put(@, cleanName, resolved)]

RECURSIVE addNonRems(_, _, _)
addNonRems(vars_, entries, acc) ==
    IF entries = <<>> THEN acc
    ELSE addNonRems(vars_, Tail(entries),
                    addNonRem(vars_, acc, Head(entries).name, Head(entries).value))

(***************************************************************************)
(* Numbers.  A JavaScript number is modelled exactly: a rational num/den   *)
(* (den > 0), or NaN, or an infinity.  The doubles of the code differ from *)
(* the exact value by less than 1e-15 for the magnitudes that occur, which *)
(* toFixed(4) shows only when the exact value is within that distance of   *)
(* a rounding tie.                                                         *)
(***************************************************************************)
Sign(n) == IF n > 0 THEN 1 ELSE IF n < 0 THEN 0 - 1 ELSE 0
Abs(n) == IF n < 0 THEN 0 - n ELSE n

RECURSIVE GCD(_, _)
GCD(a, b) == IF b = 0 THEN a ELSE GCD(b, a % b)

\* the rational n/d (d > 0), in lowest terms
Rat(n, d) ==
    LET g == GCD(Abs(n), d) IN [k |-> "num", num |-> n \div g, den |-> d \div g]
NaN == [k |-> "nan", num |-> 0, den |-> 1]
Infinity(sign) == [k |-> "inf", num |-> sign, den |-> 1]

NumSign(a) == Sign(a.num)

\* -a
NumNeg(a) ==
    IF a.k = "nan" THEN NaN
    ELSE IF a.k = "inf" THEN Infinity(0 - a.num)
    ELSE Rat(0 - a.num, a.den)

\* a + b
NumAdd(a, b) ==
    IF a.k = "nan" \/ b.k = "nan" THEN NaN
    ELSE IF a.k = "inf" /\ b.k = "inf"
         THEN IF a.num = b.num THEN a ELSE NaN
    ELSE IF a.k = "inf" THEN a
    ELSE IF b.k = "inf" THEN b
    ELSE Rat(a.num * b.den + b.num * a.den, a.den * b.den)

\* a - b
NumSub(a, b) == NumAdd(a, NumNeg(b))

\* a * b
NumMul(a, b) ==
    IF a.k = "nan" \/ b.k = "nan" THEN NaN
    ELSE IF a.k = "inf" \/ b.k = "inf"
         THEN IF NumSign(a) * NumSign(b) = 0 THEN NaN
              ELSE Infinity(NumSign(a) * NumSign(b))
    ELSE Rat(a.num * b.num, a.den * b.den)

\* a / b
NumDiv(a, b) ==
    IF a.k = "nan" \/ b.k = "nan" THEN NaN
    ELSE IF a.k = "inf"
         THEN IF b.k = "inf" THEN NaN
              ELSE Infinity(a.num * (IF b.num < 0 THEN 0 - 1 ELSE 1))
    ELSE IF b.k = "inf" THEN Rat(0, 1)
    ELSE IF b.num = 0
         THEN IF a.num = 0 THEN NaN ELSE Infinity(Sign(a.num))
    ELSE Rat(a.num * b.den * Sign(b.num), a.den * Abs(b.num))

\* x.toFixed(4): the decimal with four fraction digits nearest to x, the
\* larger in magnitude of two equally near; given as the integer 10^4 times it.
Fixed4(n) == [k |-> "num", num |-> n, den |-> 10000]

toFixed4(x) ==
    IF x.k # "num" THEN x
    ELSE Fixed4(Sign(x.num) * ((2 * Abs(x.num) * 10000 + x.den) \div (2 * x.den)))

\* parseFloat(value.replace(/"/g, "")) of the viewport values of the model;
\* every other text of the model starts with no digit and parses to NaN.
ViewportNumber ==
    ("\"320\"" :> 320) @@ ("\"390\"" :> 390) @@ ("\"1280\"" :> 1280) @@
    ("\"1440\"" :> 1440)

parseFloatQuoted(value) ==
    IF value.kind = "lit" /\ value.text \in DOMAIN ViewportNumber
    THEN Rat(ViewportNumber[value.text], 1)
    ELSE NaN

\* The values of the model's font-size lines, which match /([\d.]+)rem;/,
\* with parseFloat of the number in thousandths of a rem.
RemNumber ==
    ("0rem" :> 0) @@ ("1rem" :> 1000) @@ ("1.125rem" :> 1125) @@
    ("1.25rem" :> 1250) @@ ("1.5rem" :> 1500) @@ ("2rem" :> 2000)

MilliPerRem == 1000

IsRemValue(value) == value.kind = "lit" /\ value.text \in DOMAIN RemNumber

(***************************************************************************)
(* generateClamp                                                           *)
(***************************************************************************)
\* the text <n>rem of a number given in thousandths
RemValue(milli) ==
    [kind |-> "rem", text |-> "rem", ref |-> <<>>, milli |-> milli]

\* the text clamp(<min>rem, <y>rem + <s>vw, <max>rem)
ClampValue(min, y, s, max) ==
    [kind |-> "clamp", text |-> "clamp", ref |-> <<>>,
     min |-> min, y |-> y, s |-> s, max |-> max]

pixelsPerRem == 16

generateClampNoIntercept(minWidthPx, maxWidthPx, minFontSize, maxFontSize) ==
    LET minF == Rat(minFontSize, MilliPerRem)
        maxF == Rat(maxFontSize, MilliPerRem)
        minWidth == NumDiv(minWidthPx, Rat(pixelsPerRem, 1))
        maxWidth == NumDiv(maxWidthPx, Rat(pixelsPerRem, 1))
        slope == NumDiv(NumSub(maxF, minF), NumSub(maxWidth, minWidth))
        yAxisIntersection == NumMul(NumNeg(minWidth), slope)
    IN  ClampValue(minFontSize, toFixed4(yAxisIntersection),
                   toFixed4(NumMul(slope, Rat(100, 1))), maxFontSize)

generateClamp(minWidthPx, maxWidthPx, minFontSize, maxFontSize) ==
    LET minF == Rat(minFontSize, MilliPerRem)
        maxF == Rat(maxFontSize, MilliPerRem)
        minWidth == NumDiv(minWidthPx, Rat(pixelsPerRem, 1))
        maxWidth == NumDiv(maxWidthPx, Rat(pixelsPerRem, 1))
        slope == NumDiv(NumSub(maxF, minF), NumSub(maxWidth, minWidth))
        yAxisIntersection == NumAdd(NumMul(NumNeg(minWidth), slope), minF)
    IN  ClampValue(minFontSize, toFixed4(yAxisIntersection),
                   toFixed4(NumMul(slope, Rat(100, 1))), maxFontSize)

(***************************************************************************)
(* processFontSizes                                                        *)
(***************************************************************************)
ViewportMinWidth == <<"viewport", "min", "width">>
ViewportMaxWidth == <<"viewport", "max", "width">>

\* variables["viewport-min-width"].replace(...) on a missing key: TypeError
processFontSizesThrows(vars_) ==
    \/ Get(vars_, ViewportMinWidth).kind = "undef"
    \/ Get(vars_, ViewportMaxWidth).kind = "undef"

\* line.match(/--font-size-<bound>-step-(\d+)-rem:\s*([\d.]+)rem;/)
IsStepLine(line, bound) ==
    /\ line.decl
    /\ Len(line.name) = 6
    /\ SubSeq(line.name, 1, 4) = <<"font", "size", bound, "step">>
    /\ IsDigits(line.name[5])
    /\ line.name[6] = "rem"
    /\ IsRemValue(line.value)

\* for (let j = i + 1; j < i + 5 && j < lines.length; j++)
LookAhead == 4

NoMax == [hasMax |-> FALSE, max |-> 0]

\* "Look for the corresponding max in the next few lines", from line j on
RECURSIVE findMax(_, _, _, _)
findMax(lines, i, j, step) ==
    IF j > i + LookAhead \/ j > Len(lines) THEN NoMax
    ELSE IF IsStepLine(lines[j], "max") /\ parseInt(lines[j].name[5]) = step
         THEN [hasMax |-> TRUE, max |-> RemNumber[lines[j].value.text]]
         ELSE findMax(lines, i, j + 1, step)

RECURSIVE collectSteps(_, _, _)
collectSteps(lines, i, allSteps) ==
    IF i > Len(lines) THEN allSteps
    ELSE IF IsStepLine(lines[i], "min")
         THEN LET step == parseInt(lines[i].name[5])
                  m == findMax(lines, i, i + 1, step)
              IN  collectSteps(lines, i + 1,
                      Append(allSteps,
                             [originalStep |-> step,
                              min |-> RemNumber[lines[i].value.text],
                              hasMax |-> m.hasMax, max |-> m.max]))
         ELSE collectSteps(lines, i + 1, allSteps)

\* the key `${step.min}-${step.max}` of "Remove exact duplicates"
StepKey(step) == <<step.min, step.hasMax, step.max>>

RECURSIVE removeDuplicates(_, _)
removeDuplicates(allSteps, uniqueSteps) ==
    IF allSteps = <<>> THEN uniqueSteps
    ELSE removeDuplicates(Tail(allSteps),
            IF \E k \in DOMAIN uniqueSteps : StepKey(uniqueSteps[k]) = StepKey(Head(allSteps))
            THEN uniqueSteps
            ELSE Append(uniqueSteps, Head(allSteps)))

\* Array.prototype.sort, as Node.js 20 and 22 perform it on an array shorter
\* than 64 elements: the leading run is found (and reversed when strictly
\* descending), then each further element is placed by binary insertion.
\* With a consistent comparator this is the stable sort.  The comparator is
\* a function cmp[a, b] on the elements.

\* the number of elements after the first two that continue the leading run
RECURSIVE RunTail(_, _, _, _)
RunTail(cmp, array, isDescending, idx) ==
    IF idx > Len(array) THEN 0
    ELSE IF isDescending /\ cmp[array[idx], array[idx - 1]] >= 0 THEN 0
    ELSE IF ~isDescending /\ cmp[array[idx], array[idx - 1]] < 0 THEN 0
    ELSE 1 + RunTail(cmp, array, isDescending, idx + 1)

\* the length of the leading run
RunLength(cmp, array) ==
    IF Len(array) < 2 THEN Len(array)
    ELSE 2 + RunTail(cmp, array, cmp[array[2], array[1]] < 0, 3)

\* the leading run, ascending
MakeRun(cmp, array) ==
    LET run == SubSeq(array, 1, RunLength(cmp, array))
    IN  IF Len(array) >= 2 /\ cmp[array[2], array[1]] < 0
        THEN [i \in DOMAIN run |-> run[Len(run) + 1 - i]]
        ELSE run

\* the number of elements of sorted[left+1 .. right] that stay before pivot
RECURSIVE BinarySearch(_, _, _, _, _)
BinarySearch(cmp, sorted, pivot, left, right) ==
    IF left >= right THEN left
    ELSE LET mid == left + ((right - left) \div 2)
         IN  IF cmp[pivot, sorted[mid + 1]] < 0
             THEN BinarySearch(cmp, sorted, pivot, left, mid)
             ELSE BinarySearch(cmp, sorted, pivot, mid + 1, right)

InsertBy(cmp, sorted, x) ==
    LET pos == BinarySearch(cmp, sorted, x, 0, Len(sorted))
    IN  SubSeq(sorted, 1, pos) \o <<x>> \o SubSeq(sorted, pos + 1, Len(sorted))

RECURSIVE SortBy(_, _, _)
SortBy(cmp, todo, sorted) ==
    IF todo = <<>> THEN sorted
    ELSE SortBy(cmp, Tail(todo), InsertBy(cmp, sorted, Head(todo)))

ArraySort(cmp, array) ==
    SortBy(cmp, SubSeq(array, RunLength(cmp, array) + 1, Len(array)),
           MakeRun(cmp, array))

\* (a, b) => a.avgValue - b.avgValue
byAvgValue(a, b) == a.min - b.min

\* "Find step-0 index": -1 when there is none; the sequence is 0-based in the
\* code and 1-based here, so the result is a code index.
step0IndexOf(uniqueSteps) ==
    LET zeros == { k \in DOMAIN uniqueSteps : uniqueSteps[k].originalStep = 0 }
    IN  IF zeros = {} THEN 0 - 1
        ELSE (CHOOSE k \in zeros : \A l \in zeros : k <= l) - 1

\* `font-size-step-${outputStep}`
StepName(outputStep) ==
    IF outputStep >= 0
    THEN <<"font", "size", "step", ToString(outputStep)>>
    ELSE <<"font", "size", "step", "", ToString(0 - outputStep)>>

\* A variant that numbers the pairs after step 0 by their position too.
outputStepOfResequenced(i, step0Index, data) == i - step0Index

outputStepOf(i, step0Index, data) ==
    IF i < step0Index THEN i - step0Index
    ELSE IF i = step0Index THEN 0
    ELSE data.originalStep

\* "Generate output with correct numbering", from code index i on
RECURSIVE numberSteps(_, _, _, _, _, _)
numberSteps(uniqueSteps, i, step0Index, minWidth, maxWidth, fontSizes) ==
    IF i >= Len(uniqueSteps) THEN fontSizes
    ELSE
      LET data == uniqueSteps[i + 1]
          varName == StepName(outputStepOf(i, step0Index, data))
          minTruthy == data.min # 0
          maxTruthy == data.hasMax /\ data.max # 0
          next ==
            IF minTruthy /\ maxTruthy
            THEN Put(fontSizes, varName,
                     generateClamp(minWidth, maxWidth, data.min, data.max))
            ELSE IF minTruthy THEN Put(fontSizes, varName, RemValue(data.min))
            ELSE IF maxTruthy THEN Put(fontSizes, varName, RemValue(data.max))
            ELSE fontSizes
      IN  numberSteps(uniqueSteps, i + 1, step0Index, minWidth, maxWidth, next)

\* uniqueSteps after "Sort by value (ascending)"
sortedSteps(originalCSS) ==
    LET allSteps == collectSteps(originalCSS, 1, <<>>)
        steps == removeDuplicates(allSteps, <<>>)
        cmp == [a \in Range(steps), b \in Range(steps) |-> byAvgValue(a, b)]
    IN  ArraySort(cmp, steps)

processFontSizes(vars_, originalCSS) ==
    LET minWidth == parseFloatQuoted(Get(vars_, ViewportMinWidth))
        maxWidth == parseFloatQuoted(Get(vars_, ViewportMaxWidth))
        uniqueSteps == sortedSteps(originalCSS)
    IN  numberSteps(uniqueSteps, 0, step0IndexOf(uniqueSteps), minWidth, maxWidth,
                    EmptyTable)

\* Object.assign(target, source)
RECURSIVE assign(_, _)
assign(target, source) ==
    IF source = <<>> THEN target
    ELSE assign(Put(target, Head(source).name, Head(source).value), Tail(source))

(***************************************************************************)
(* processVariables                                                        *)
(***************************************************************************)
processVariablesThrows(vars_, originalCSS) == processFontSizesThrows(vars_)

processVariables(vars_, originalCSS) ==
    LET modes == separateModes(vars_, EmptyResult)
        rems == handleRems(vars_, vars_, [primitives |-> EmptyTable, processed |-> {}])
        prims == addNonRems(vars_, vars_, rems).primitives
    IN  [primitives |-> assign(prims, processFontSizes(vars_, originalCSS)),
         lightMode |-> modes.lightMode,
         darkMode |-> modes.darkMode]

(***************************************************************************)
(* String order.  localeCompare and the default Array.prototype.sort agree *)
(* on the names of the model: lower-case words and digit strings, joined   *)
(* by "-", which sorts before every digit and letter.  Collation lists the *)
(* tokens of the model in that order.                                      *)
(***************************************************************************)
Collation ==
    <<"", "0", "0_5", "1", "1_5", "100", "2", "24", "2xl", "3", "4", "50",
      "500", "950",
      "accent", "active", "aqua", "background", "base", "body", "border",
      "borders", "brand", "color", "container", "dark", "default", "family",
      "font", "foreground", "full", "gray", "header", "heading", "hover",
      "icon", "lg", "light", "max", "md", "mid", "min", "mode", "outline",
      "primary", "px", "radii", "rem", "size", "sm", "spacing", "step",
      "surface", "text", "texture", "type", "typography", "viewport",
      "weight", "width", "x", "xs", "y", "zebra">>

TokRank(tok) == CHOOSE i \in DOMAIN Collation : Collation[i] = tok

\* a.localeCompare(b)
RECURSIVE localeCompare(_, _)
localeCompare(a, b) ==
    IF a = <<>> THEN (IF b = <<>> THEN 0 ELSE 0 - 1)
    ELSE IF b = <<>> THEN 1
    ELSE IF Head(a) = Head(b) THEN localeCompare(Tail(a), Tail(b))
    ELSE IF TokRank(Head(a)) < TokRank(Head(b)) THEN 0 - 1 ELSE 1

\* seq.indexOf(x)
IndexOf(seq, x) ==
    LET at == { i \in DOMAIN seq : seq[i] = x }
    IN  IF at = {} THEN 0 - 1
        ELSE (CHOOSE i \in at : \A j \in at : i <= j) - 1

\* the leading digits of a token that starts with a digit, as parseInt reads
LeadingNumber ==
    DigitValue @@ ("0_5" :> 0) @@ ("1_5" :> 1) @@ ("2xl" :> 2)

\* the match of /(\d+)(_\d+)?$/ in a token, as parseFloat reads it with "_"
\* replaced by ".", in tenths
TrailingTenths ==
    [t \in DOMAIN DigitValue |-> 10 * DigitValue[t]] @@ ("0_5" :> 5) @@ ("1_5" :> 15)

\* the match of /^[a-z]+/ in a token: "" when it starts with no lower-case letter
LowercaseRun(tok) ==
    IF tok = "" \/ tok \in DOMAIN LeadingNumber THEN "" ELSE tok

(***************************************************************************)
(* sortVariables                                                           *)
(***************************************************************************)
radiiOrder == <<"xs", "sm", "md", "lg", "xl", "2xl", "3xl", "4xl", "full">>
borderOrder == <<"xs", "sm", "md", "lg", "xl">>

\* order.indexOf(a.replace("<group>-", "")) for a name of the group
sizeIndex(order, name, group) ==
    IF Len(name) = 2 /\ name[1] = group THEN IndexOf(order, name[2]) ELSE 0 - 1

\* a.includes("step-")
includesStep(name) == \E i \in 1..(Len(name) - 1) : name[i] = "step"

\* the places where /step-(-?\d+)/ matches
stepMatches(name) ==
    { i \in 1..(Len(name) - 1) :
        /\ name[i] = "step"
        /\ \/ name[i + 1] \in DOMAIN LeadingNumber
           \/ /\ name[i + 1] = ""
              /\ i + 2 <= Len(name)
              /\ name[i + 2] \in DOMAIN LeadingNumber }

\* parseInt(a.match(/step-(-?\d+)/)[1])
stepNumber(name) ==
    LET i == CHOOSE k \in stepMatches(name) : \A l \in stepMatches(name) : k <= l
    IN  IF name[i + 1] = "" THEN 0 - LeadingNumber[name[i + 2]]
        ELSE LeadingNumber[name[i + 1]]

\* a.match(/-(\d+)$/)
hasNumericSuffix(name) == Len(name) >= 2 /\ IsDigits(name[Len(name)])

\* a.match(/(\d+)(_\d+)?$/)
hasTrailingNumber(name) == name # <<>> /\ name[Len(name)] \in DOMAIN TrailingTenths

\* a.match(...)[1] of a null match: TypeError
sortVariablesThrows(a, b, prefix) ==
    /\ prefix = <<"font", "size">>
    /\ includesStep(a) /\ includesStep(b)
    /\ stepMatches(a) = {} \/ stepMatches(b) = {}

sortVariables(a, b, prefix) ==
    LET aRadii == sizeIndex(radiiOrder, a, "radii")
        bRadii == sizeIndex(radiiOrder, b, "radii")
        aBorder == sizeIndex(borderOrder, a, "border")
        bBorder == sizeIndex(borderOrder, b, "border")
    IN
    IF prefix = <<"radii">> /\ aRadii # 0 - 1 /\ bRadii # 0 - 1
    THEN aRadii - bRadii
    ELSE IF prefix = <<"border">> /\ aBorder # 0 - 1 /\ bBorder # 0 - 1
    THEN aBorder - bBorder
    ELSE IF prefix = <<"font", "size">> /\ includesStep(a) /\ includesStep(b)
    THEN stepNumber(b) - stepNumber(a)
    ELSE IF hasNumericSuffix(a) /\ hasNumericSuffix(b)
    THEN parseInt(a[Len(a)]) - parseInt(b[Len(b)])
    ELSE IF (prefix = <<"spacing">> \/ prefix = <<"size">>) /\ a = SpacingPx
    THEN 0 - 1
    ELSE IF (prefix = <<"spacing">> \/ prefix = <<"size">>) /\ b = SpacingPx
    THEN 1
    ELSE IF /\ (prefix = <<"spacing">> \/ prefix = <<"size">>)
            /\ hasTrailingNumber(a) /\ hasTrailingNumber(b)
    THEN TrailingTenths[a[Len(a)]] - TrailingTenths[b[Len(b)]]
    ELSE localeCompare(a, b)

(***************************************************************************)
(* sortModeVariables                                                       *)
(***************************************************************************)
modeCategories == <<"surface", "text", "icon", "outline">>

categoryOrder(category) ==
    CASE category = "surface" -> <<
        <<"background">>, <<"background", "0">>, <<"primary", "default">>,
        <<"primary", "hover">>, <<"primary", "active">>,
        <<"secondary", "default">>, <<"secondary", "hover">>,
        <<"secondary", "active">>, <<"tertiary", "default">>,
        <<"tertiary", "hover">>, <<"tertiary", "active">>, <<"quaternary">>,
        <<"quinary">>, <<"senary">>, <<"septenary">>, <<"octonary">>,
        <<"accent">>, <<"highlight", "default">>, <<"highlight", "active">>,
        <<"highlight", "hover">>, <<"focus">>, <<"error">>, <<"warning">>,
        <<"success">>, <<"info">>
      >>
    [] category = "text" -> <<
        <<"foreground", "default">>, <<"foreground", "hover">>,
        <<"foreground", "active">>, <<"primary", "default">>,
        <<"primary", "hover">>, <<"primary", "active">>,
        <<"secondary", "default">>, <<"secondary", "hover">>,
        <<"secondary", "active">>, <<"tertiary", "default">>,
        <<"tertiary", "hover">>, <<"tertiary", "active">>, <<"quaternary">>,
        <<"quinary">>, <<"senary">>, <<"septenary">>, <<"octonary">>,
        <<"inverted">>, <<"accent">>, <<"highlight", "default">>,
        <<"highlight", "hover">>, <<"highlight", "active">>, <<"focus">>,
        <<"error">>, <<"warning">>, <<"success">>, <<"info">>
      >>
    [] category = "icon" -> <<
        <<"foreground">>, <<"foreground", "hover">>,
        <<"foreground", "active">>, <<"primary", "default">>,
        <<"primary", "hover">>, <<"primary", "active">>,
        <<"secondary", "default">>, <<"secondary", "hover">>,
        <<"secondary", "active">>, <<"tertiary">>, <<"quaternary">>,
        <<"quinary">>, <<"senary">>, <<"septenary">>, <<"octonary">>,
        <<"inverted">>, <<"highlight", "default">>, <<"highlight", "hover">>,
        <<"highlight", "active">>
      >>
    [] category = "outline" -> <<
        <<"primary", "default">>, <<"primary", "hover">>,
        <<"primary", "active">>, <<"secondary", "default">>,
        <<"secondary", "hover">>, <<"secondary", "active">>,
        <<"tertiary", "default">>, <<"tertiary", "hover">>,
        <<"tertiary", "active">>, <<"quaternary">>, <<"quinary">>,
        <<"senary">>, <<"septenary">>, <<"octonary", "default">>,
        <<"octonary", "hover">>, <<"octonary", "active">>, <<"disabled">>,
        <<"inverted">>, <<"focus">>, <<"error">>, <<"warning">>,
        <<"success">>, <<"info">>
      >>

\* the first category the name starts with, "" when there is none
categoryOf(name) ==
    LET cats == { i \in DOMAIN modeCategories :
                    name # <<>> /\ StartsWithStr(name, <<modeCategories[i]>>) }
    IN  IF cats = {} THEN ""
        ELSE modeCategories[CHOOSE i \in cats : \A j \in cats : i <= j]

\* a.replace(category + "-", ""): the first occurrence is removed
removeFirst(name, category) ==
    LET at == { i \in 1..(Len(name) - 1) : name[i] = category }
    IN  IF at = {} THEN name
        ELSE LET i == CHOOSE k \in at : \A l \in at : k <= l
             IN  SubSeq(name, 1, i - 1) \o SubSeq(name, i + 1, Len(name))

modeStates == {"default", "hover", "active"}

\* suffix.match(/^(.+?)(?:-(default|hover|active))?$/): null on the empty string
hasStateSuffix(suffix) ==
    /\ Len(suffix) >= 2
    /\ suffix[Len(suffix)] \in modeStates
    /\ DropLast(suffix, 1) # <<"">>

baseOf(suffix) == IF hasStateSuffix(suffix) THEN DropLast(suffix, 1) ELSE suffix

stateOf(suffix) == IF hasStateSuffix(suffix) THEN suffix[Len(suffix)] ELSE "default"

\* stateOrder[state] || 3 with stateOrder = { default: 0, hover: 1, active: 2 }
stateRank(state) ==
    LET rank == CASE state = "default" -> 0 [] state = "hover" -> 1 [] state = "active" -> 2
    IN  IF rank = 0 THEN 3 ELSE rank

sortModeVariables(a, b) ==
    LET category == categoryOf(a) IN
    IF category = "" THEN localeCompare(a, b)
    ELSE
      LET aSuffix == removeFirst(a, category)
          bSuffix == removeFirst(b, category)
          aIndex == IndexOf(categoryOrder(category), aSuffix)
          bIndex == IndexOf(categoryOrder(category), bSuffix)
      IN
      IF aIndex # 0 - 1 /\ bIndex # 0 - 1 THEN aIndex - bIndex
      ELSE IF aIndex # 0 - 1 THEN 0 - 1
      ELSE IF bIndex # 0 - 1 THEN 1
      ELSE IF aSuffix # <<"">> /\ bSuffix # <<"">>
      THEN IF baseOf(aSuffix) = baseOf(bSuffix)
           THEN stateRank(stateOf(aSuffix)) - stateRank(stateOf(bSuffix))
           ELSE localeCompare(baseOf(aSuffix), baseOf(bSuffix))
      ELSE localeCompare(aSuffix, bSuffix)

(***************************************************************************)
(* generateOutput                                                          *)
(***************************************************************************)
\* a line of the output that is no declaration
TextLine(s) ==
    [kind |-> "text", text |-> s, indent |-> 0, name |-> <<>>, value |-> Lit("")]

\* the line <indent spaces>--<name>: <value>;
DeclLine(indent, e) ==
    [kind |-> "decl", text |-> "", indent |-> indent, name |-> e.name, value |-> e.value]

BlankLine == TextLine("")

knownColorOrder ==
    << <<"color", "default">>, <<"color", "gray">>, <<"color", "primary">>,
       <<"color", "secondary">>, <<"color", "tertiary">>,
       <<"color", "highlight">>, <<"color", "accent">> >>

otherGroupsOrderBorderLast ==
    << <<"container">>, <<"header">>, <<"font", "family">>, <<"radii">>,
       <<"spacing">>, <<"size">>, <<"font", "size">>, <<"surface">>,
       <<"text">>, <<"icon">>, <<"outline">>, <<"border">> >>

otherGroupsOrder ==
    << <<"container">>, <<"header">>, <<"font", "family">>, <<"border">>,
       <<"radii">>, <<"spacing">>, <<"size">>, <<"font", "size">>,
       <<"surface">>, <<"text">>, <<"icon">>, <<"outline">> >>

\* name.match(/^color-([a-z]+)/) of a name that starts with "color-": the
\* group `color-${colorMatch[1]}`, <<>> when there is no match
colorPrefixOf(name) ==
    IF StartsWithDash(name, <<"color">>) /\ LowercaseRun(name[2]) # ""
    THEN <<"color", LowercaseRun(name[2])>>
    ELSE <<>>

\* "Detect color groups dynamically"
detectedColorGroups(primitives) ==
    { colorPrefixOf(n) : n \in Keys(primitives) } \ { <<>> }

\* [...set].sort(): the strings in ascending order
RECURSIVE sortStrings(_)
sortStrings(set) ==
    IF set = {} THEN <<>>
    ELSE LET least == CHOOSE x \in set : \A y \in set : localeCompare(x, y) <= 0
         IN  <<least>> \o sortStrings(set \ {least})

\* "Add new color groups that aren't in the known list"
newColorGroups(primitives) ==
    sortStrings(detectedColorGroups(primitives) \ Range(knownColorOrder))

\* "Create final group order: known colors + new colors + other groups"
finalGroupOrder(primitives) ==
    knownColorOrder \o newColorGroups(primitives) \o otherGroupsOrder

\* "Group primitives": the group a name is pushed to, <<>> when it is not
\* grouped.  groups[colorPrefix] exists for every detected colour group.
groupOf(name) ==
    IF colorPrefixOf(name) # <<>> THEN colorPrefixOf(name)
    ELSE LET at == { i \in DOMAIN otherGroupsOrder :
                       StartsWithStr(name, otherGroupsOrder[i]) }
         IN  IF at = {} THEN <<>>
             ELSE otherGroupsOrder[CHOOSE i \in at : \A j \in at : i <= j]

SelectEntries(table, names) ==
    LET F[i \in 0..Len(table)] ==
          IF i = 0 THEN <<>>
          ELSE IF table[i].name \in names THEN Append(F[i - 1], table[i]) ELSE F[i - 1]
    IN  F[Len(table)]

\* groups[prefix] after "Group primitives", in the order of the pushes
groupMembers(primitives, prefix) ==
    SelectEntries(primitives, { n \in Keys(primitives) : groupOf(n) = prefix })

\* console.warn(`Variable no agrupada: ${name}`), in order
ungrouped(primitives) ==
    LET es == SelectEntries(primitives, { n \in Keys(primitives) : groupOf(n) = <<>> })
    IN  [i \in DOMAIN es |-> es[i].name]

DeclLines(indent, entries) == [i \in DOMAIN entries |-> DeclLine(indent, entries[i])]

\* groups[prefix].sort((a, b) => sortVariables(a[0], b[0], prefix))
sortedGroup(primitives, prefix) ==
    LET group == groupMembers(primitives, prefix)
        cmp == [x \in Range(group), y \in Range(group) |->
                   sortVariables(x.name, y.name, prefix)]
    IN  ArraySort(cmp, group)

\* "Sort and output each group"
RECURSIVE primitiveLines(_, _)
primitiveLines(primitives, order) ==
    IF order = <<>> THEN <<>>
    ELSE LET group == sortedGroup(primitives, Head(order))
         IN  (IF group = <<>> THEN <<>>
              ELSE DeclLines(4, group) \o <<BlankLine>>)
             \o primitiveLines(primitives, Tail(order))

\* the group of a mode variable: the first prefix of lightGroups the name
\* starts with, "" when there is none (the variable is then not pushed)
modeGroupOf(name) == categoryOf(name)

sortedModeGroup(modeTable, prefix) ==
    LET group == SelectEntries(modeTable,
                     { n \in Keys(modeTable) : modeGroupOf(n) = prefix })
        cmp == [x \in Range(group), y \in Range(group) |->
                   sortModeVariables(x.name, y.name)]
    IN  ArraySort(cmp, group)

\* the loop over prefixOrder, with its blank line between non-empty groups
RECURSIVE modeLines(_, _, _, _)
modeLines(modeTable, indent, prefixOrder, isFirst) ==
    IF prefixOrder = <<>> THEN <<>>
    ELSE LET group == sortedModeGroup(modeTable, Head(prefixOrder))
         IN  IF group = <<>>
             THEN modeLines(modeTable, indent, Tail(prefixOrder), isFirst)
             ELSE (IF isFirst THEN <<>> ELSE <<BlankLine>>)
                  \o DeclLines(indent, group)
                  \o modeLines(modeTable, indent, Tail(prefixOrder), FALSE)

\* A variant that adds the dark block whether or not darkMode has entries.
darkBlockAlways(darkMode) ==
    <<BlankLine, TextLine("  @media (prefers-color-scheme: dark) {"),
      TextLine("    :root {")>>
    \o modeLines(darkMode, 6, modeCategories, TRUE)
    \o <<BlankLine, TextLine("    }"), TextLine("  }")>>

\* "Add dark mode if exists"
darkBlock(darkMode) ==
    IF Len(darkMode) > 0
    THEN <<BlankLine, TextLine("  @media (prefers-color-scheme: dark) {"),
           TextLine("    :root {")>>
         \o modeLines(darkMode, 6, modeCategories, TRUE)
         \o <<BlankLine, TextLine("    }"), TextLine("  }")>>
    ELSE <<>>

\* a comparator of the font-size group throws
generateOutputThrows(result) ==
    LET group == groupMembers(result.primitives, <<"font", "size">>)
    IN  \E i, j \in DOMAIN group :
           i # j /\ sortVariablesThrows(group[i].name, group[j].name, <<"font", "size">>)

generateOutput(result) ==
    <<TextLine("@layer globals {"), TextLine("  :root {")>>
    \o primitiveLines(result.primitives, finalGroupOrder(result.primitives))
    \o (IF Len(result.lightMode) > 0
        THEN modeLines(result.lightMode, 4, modeCategories, TRUE)
        ELSE <<>>)
    \o <<TextLine("  }")>>
    \o darkBlock(result.darkMode)
    \o <<TextLine("}")>>

(***************************************************************************)
(* The input files of the model: a preamble with the viewport bounds, and  *)
(* the declarations the exporter appends to it.                            *)
(***************************************************************************)
ViewportOk == <<Decl(ViewportMinWidth, Lit("\"320\"")), Decl(ViewportMaxWidth, Lit("\"1280\""))>>
ViewportWide == <<Decl(ViewportMinWidth, Lit("\"390\"")), Decl(ViewportMaxWidth, Lit("\"1440\""))>>
ViewportBadMin == <<Decl(ViewportMinWidth, Lit("\"abc\"")), Decl(ViewportMaxWidth, Lit("\"1280\""))>>
ViewportBadMax == <<Decl(ViewportMinWidth, Lit("\"320\"")), Decl(ViewportMaxWidth, Lit("\"auto\""))>>
ViewportNoMax == <<Decl(ViewportMinWidth, Lit("\"320\""))>>
ViewportNoMin == <<Decl(ViewportMaxWidth, Lit("\"1280\""))>>
ViewportNone == <<>>

PoolMode ==
    { Decl(<<"surface", "surface", "background", "light", "mode">>,
           VarRef(<<"color", "default", "50">>)),
      Decl(<<"surface", "surface", "background", "dark", "mode">>,
           VarRef(<<"color", "default", "950">>)),
      Decl(<<"surface", "background", "light", "mode">>,
           VarRef(<<"surface", "surface", "x">>)),
      Decl(<<"text", "text", "y", "dark", "mode">>, VarRef(<<"text", "text", "x">>)),
      Decl(<<"color", "x", "light", "mode">>, Lit("#fff")),
      Decl(<<"icon", "icon", "x", "light", "mode">>, Lit("0px")),
      Decl(<<"surface", "surface", "background">>, Lit("#000")) }

PoolSpacing ==
    { Decl(<<"spacing", "px">>, Lit("1px")),
      Decl(<<"spacing", "px">>, Lit("0px")),
      Decl(<<"spacing", "px", "rem">>, Lit("0.0625rem")),
      Decl(<<"radii", "full">>, Lit("9999px")),
      Decl(<<"radii", "full", "rem">>, Lit("2rem")),
      Decl(<<"spacing", "1">>, Lit("4px")),
      Decl(<<"spacing", "1", "rem">>, Lit("0.25rem")) }

PoolBorder ==
    { Decl(<<"border", "border", "xs">>, Lit("1px")),
      Decl(<<"border", "border", "xs", "rem">>, Lit("0.0625rem")),
      Decl(<<"border", "xs">>, Lit("2px")),
      Decl(<<"size", "size", "0">>, Lit("0px")),
      Decl(<<"size", "size", "0", "rem">>, Lit("0rem")),
      Decl(<<"size", "size", "1">>, Lit("0rem")),
      Decl(<<"size", "size", "1", "rem">>, Lit("")) }

PoolGroups ==
    { Decl(<<"color", "primary", "500">>, Lit("#253fe4")),
      Decl(<<"color", "accent", "50">>, Lit("#fff")),
      Decl(<<"color", "brand", "500">>, Lit("#000")),
      Decl(<<"color", "aqua", "100">>, Lit("#0ff")),
      Decl(<<"border", "border", "xs", "rem">>, Lit("0.0625rem")),
      Decl(<<"spacing", "px">>, Lit("1px")),
      Decl(<<"zebra", "x">>, Lit("1px")) }

PoolNames ==
    { Decl(<<"border", "border", "border", "xs">>, Lit("1px")),
      Decl(<<"surface", "surface", "surface", "x", "light", "mode">>,
           VarRef(<<"text", "text", "text", "y">>)),
      Decl(<<"container", "x">>, VarRef(<<"size", "size", "1">>)),
      Decl(<<"size", "size", "1">>, Lit("4px")) }

PoolStates ==
    { Decl(<<"surface", "surface", "brand", "light", "mode">>, Lit("#111")),
      Decl(<<"surface", "surface", "brand", "hover", "light", "mode">>, Lit("#222")),
      Decl(<<"surface", "surface", "brand", "active", "light", "mode">>, Lit("#333")),
      Decl(<<"surface", "surface", "aqua", "light", "mode">>, Lit("#0ff")),
      Decl(<<"surface", "surface", "background", "light", "mode">>, Lit("#fff")) }

PoolSteps ==
    { Decl(<<"font", "size", "min", "step", "2", "rem">>, Lit("1rem")),
      Decl(<<"font", "size", "min", "step", "0", "rem">>, Lit("1.125rem")),
      Decl(<<"font", "size", "min", "step", "4", "rem">>, Lit("2rem")),
      Decl(<<"font", "size", "min", "step", "0", "rem">>, Lit("1.5rem")),
      Decl(<<"font", "size", "min", "step", "1", "rem">>, Lit("0rem")),
      Decl(<<"font", "size", "max", "step", "1", "rem">>, Lit("1.25rem")) }

PoolFamily ==
    { Decl(<<"typography", "font", "heading">>, Lit("Inter")),
      Decl(<<"typography", "font", "heading">>, VarRef(<<"typography", "font", "y">>)),
      Decl(<<"font", "family", "body">>, VarRef(<<"typography", "font", "heading">>)),
      Decl(<<"typography", "font", "x">>, VarRef(<<"typography", "font", "heading">>)),
      Decl(<<"typography", "font", "body", "rem">>, Lit("Inter")) }

PoolRanks ==
    { Decl(<<"radii", "md">>, Lit("8px")),
      Decl(<<"radii", "px">>, Lit("1px")),
      Decl(<<"radii", "sm">>, Lit("4px")),
      Decl(<<"border", "border", "md">>, Lit("2px")),
      Decl(<<"border", "border", "px">>, Lit("1px")),
      Decl(<<"border", "border", "sm">>, Lit("1.5px")) }

PoolFont ==
    { Decl(<<"font", "size", "min", "step", "0", "rem">>, Lit("1.125rem")),
      Decl(<<"font", "size", "max", "step", "0", "rem">>, Lit("1.25rem")),
      Decl(<<"font", "size", "min", "step", "1", "rem">>, Lit("1.25rem")),
      Decl(<<"font", "size", "max", "step", "1", "rem">>, Lit("1.5rem")),
      Decl(<<"font", "size", "base">>, Lit("1rem")),
      Other }

Scenarios ==
    { [preamble |-> ViewportOk, pool |-> PoolMode],
      [preamble |-> ViewportOk, pool |-> PoolSpacing],
      [preamble |-> ViewportOk, pool |-> PoolBorder],
      [preamble |-> ViewportOk, pool |-> PoolGroups],
      [preamble |-> ViewportOk, pool |-> PoolNames],
      [preamble |-> ViewportOk, pool |-> PoolStates],
      [preamble |-> ViewportOk, pool |-> PoolSteps],
      [preamble |-> ViewportOk, pool |-> PoolFamily],
      [preamble |-> ViewportOk, pool |-> PoolRanks],
      [preamble |-> ViewportOk, pool |-> PoolFont],
      [preamble |-> ViewportWide, pool |-> PoolFont],
      [preamble |-> ViewportBadMin, pool |-> PoolFont],
      [preamble |-> ViewportBadMax, pool |-> PoolFont],
      [preamble |-> ViewportNone, pool |-> PoolMode],
      [preamble |-> ViewportNoMax, pool |-> PoolGroups],
      [preamble |-> ViewportNoMin, pool |-> PoolFont] }

\* what an earlier run left in the output file
OldOutput == <<TextLine("/* old */")>>

(***************************************************************************)
(* The state machine.                                                      *)
(***************************************************************************)
Init ==
    /\ \E sc \in Scenarios : pool = sc.pool /\ inputFile = sc.preamble
    /\ outputFile \in {NoFile, OldOutput}
    /\ pc = "editing"
    /\ exitCode = 0 - 1
    /\ stderr = <<>>
    /\ warnings = <<>>
    /\ variables = EmptyTable
    /\ processed = EmptyResult
    /\ output = <<>>

Appended(file) == Len(file) - Cardinality({ i \in DOMAIN file :
                      file[i].decl /\ StartsWithDash(file[i].name, <<"viewport">>) })

\* The exporter appends one line to the input file.
WriteDeclaration(line) ==
    /\ pc = "editing"
    /\ inputFile # NoFile
    /\ Appended(inputFile) < MaxDecls
    /\ inputFile' = Append(inputFile, line)
    /\ UNCHANGED <<pool, outputFile, pc, exitCode, stderr, warnings,
                   variables, processed, output>>

\* The input file is removed before the tool runs.
DeleteInputFile ==
    /\ pc = "editing"
    /\ inputFile # NoFile
    /\ inputFile' = NoFile
    /\ UNCHANGED <<pool, outputFile, pc, exitCode, stderr, warnings,
                   variables, processed, output>>

\* catch (error) { console.error(...); console.error(error.message); process.exit(1) }
Fail(message) ==
    /\ stderr' = <<"Error durante la transformacion:", message>>
    /\ exitCode' = 1
    /\ pc' = "failed"

\* fs.writeFileSync(outputPath, output, "utf8") and the end of the process
writeOutput(text) ==
    /\ outputFile' = text
    /\ stderr' = <<>>
    /\ exitCode' = 0
    /\ pc' = "done"

transformCSSWritesFirst ==
    /\ pc = "editing"
    /\ UNCHANGED <<pool, inputFile>>
    /\ IF inputFile = NoFile
       THEN /\ Fail("ENOENT")
            /\ UNCHANGED <<outputFile, warnings, variables, processed, output>>
       ELSE
         LET vs == parseVariables(inputFile) IN
         /\ variables' = vs
         /\ IF processVariablesThrows(vs, inputFile)
            THEN /\ Fail("TypeError")
                 /\ outputFile' = <<TextLine("@layer globals {")>>
                 /\ UNCHANGED <<warnings, processed, output>>
            ELSE
              LET result == processVariables(vs, inputFile) IN
              /\ processed' = result
              /\ warnings' = ungrouped(result.primitives)
              /\ IF generateOutputThrows(result)
                 THEN Fail("TypeError") /\ UNCHANGED <<outputFile, output>>
                 ELSE /\ output' = generateOutput(result)
                      /\ writeOutput(generateOutput(result))

transformCSS ==
    /\ pc = "editing"
    /\ UNCHANGED <<pool, inputFile>>
    /\ IF inputFile = NoFile
       THEN /\ Fail("ENOENT")
            /\ UNCHANGED <<outputFile, warnings, variables, processed, output>>
       ELSE
         LET vs == parseVariables(inputFile) IN
         /\ variables' = vs
         /\ IF processVariablesThrows(vs, inputFile)
            THEN Fail("TypeError") /\ UNCHANGED <<outputFile, warnings, processed, output>>
            ELSE
              LET result == processVariables(vs, inputFile) IN
              /\ processed' = result
              /\ warnings' = ungrouped(result.primitives)
              /\ IF generateOutputThrows(result)
                 THEN Fail("TypeError") /\ UNCHANGED <<outputFile, output>>
                 ELSE /\ output' = generateOutput(result)
                      /\ writeOutput(generateOutput(result))

Next ==
    \/ \E line \in pool : WriteDeclaration(line)
    \/ DeleteInputFile
    \/ transformCSS

Spec == Init /\ [][Next]_vars

(***************************************************************************)
(* Reading the output text and the input file.                             *)
(***************************************************************************)
IsDecl(line) == line.kind = "decl"

\* the declarations of a piece of text, in order, as <<name, value>> entries
DeclsOf(text) ==
    LET F[i \in 0..Len(text)] ==
          IF i = 0 THEN <<>>
          ELSE IF IsDecl(text[i])
               THEN Append(F[i - 1], [name |-> text[i].name, value |-> text[i].value])
               ELSE F[i - 1]
    IN  F[Len(text)]

\* the line that closes the base :root block: the first "  }"
BaseEnd(text) ==
    CHOOSE i \in DOMAIN text :
        /\ text[i] = TextLine("  }")
        /\ \A j \in 1..(i - 1) : text[j] # TextLine("  }")

\* the declarations of the base :root block
BaseDecls(text) == DeclsOf(SubSeq(text, 1, BaseEnd(text)))

\* the declarations after the base :root block: those of the dark block
DarkDecls(text) == DeclsOf(SubSeq(text, BaseEnd(text) + 1, Len(text)))

\* the primitives that were grouped, and so emitted
EmittedPrimitives == Len(processed.primitives) - Len(warnings)

\* the base block's declarations that render the primitive groups
PrimitiveDecls(text) == SubSeq(BaseDecls(text), 1, EmittedPrimitives)

\* the base block's declarations that render the light-mode tokens
LightDecls(text) ==
    SubSeq(BaseDecls(text), EmittedPrimitives + 1, Len(BaseDecls(text)))

Count(seq, x) == Cardinality({ i \in DOMAIN seq : seq[i] = x })

CountName(seq, n) == Cardinality({ i \in DOMAIN seq : seq[i].name = n })

Declares(file, n) == \E i \in DOMAIN file : file[i].decl /\ file[i].name = n

\* the last line of the file that declares n
LastDeclaration(file, n) ==
    CHOOSE i \in DOMAIN file :
        /\ file[i].decl /\ file[i].name = n
        /\ \A j \in DOMAIN file : file[j].decl /\ file[j].name = n => j <= i

Ended == pc # "editing"

(***************************************************************************)
(* C10.  parseVariables maps every name declared in the input to the value *)
(* of the last declaration of that name, with exactly one entry per name,  *)
(* and has no entry for any other name.                                    *)
(***************************************************************************)
C10_LastDeclarationWins ==
    Ended /\ inputFile # NoFile =>
        /\ \A i \in DOMAIN inputFile :
              inputFile[i].decl =>
                 /\ CountName(variables, inputFile[i].name) = 1
                 /\ Get(variables, inputFile[i].name)
                      = inputFile[LastDeclaration(inputFile, inputFile[i].name)].value
        /\ \A n \in Keys(variables) : Declares(inputFile, n)

\* a name is declared twice, with two values, and the transform went through
C10_Witness ==
    /\ pc = "done"
    /\ \E i, j \in DOMAIN inputFile :
          /\ i < j
          /\ inputFile[i].decl /\ inputFile[j].decl
          /\ inputFile[i].name = inputFile[j].name
          /\ inputFile[i].value # inputFile[j].value
          /\ Get(variables, inputFile[i].name) = inputFile[j].value

(***************************************************************************)
(* C6.  When the input file cannot be read, or declares no                 *)
(* viewport-min-width or no viewport-max-width, the run of transformCSS    *)
(* fails: the output file is left as it was, the error is reported and the *)
(* exit code is 1.                                                         *)
(***************************************************************************)
MissingConfig(file) ==
    \/ file = NoFile
    \/ ~Declares(file, ViewportMinWidth)
    \/ ~Declares(file, ViewportMaxWidth)

C6_MissingConfigFailsBeforeWrite ==
    [][ pc = "editing" /\ pc' # "editing" /\ MissingConfig(inputFile) =>
          /\ pc' = "failed"
          /\ exitCode' = 1
          /\ Len(stderr') = 2
          /\ outputFile' = outputFile ]_vars

\* a run that failed on a readable file without viewport-max-width, with an
\* output file of an earlier run in place
C6_Witness ==
    /\ pc = "failed"
    /\ inputFile # NoFile
    /\ Declares(inputFile, ViewportMinWidth)
    /\ ~Declares(inputFile, ViewportMaxWidth)
    /\ Len(inputFile) > 1
    /\ outputFile = OldOutput
    /\ exitCode = 1

(***************************************************************************)
(* C7.  When viewport-min-width or viewport-max-width is declared with a   *)
(* value that is no number, the transform fails and writes no output, as   *)
(* when the variable is absent.                                            *)
(***************************************************************************)
NonNumericViewport(file) ==
    /\ file # NoFile
    /\ Declares(file, ViewportMinWidth)
    /\ Declares(file, ViewportMaxWidth)
    /\ \/ parseFloatQuoted(file[LastDeclaration(file, ViewportMinWidth)].value) = NaN
       \/ parseFloatQuoted(file[LastDeclaration(file, ViewportMaxWidth)].value) = NaN

C7_NonNumericViewportFails ==
    Ended /\ NonNumericViewport(inputFile) =>
        /\ pc = "failed"
        /\ exitCode = 1
        /\ outputFile \in {NoFile, OldOutput}

(***************************************************************************)
(* C9.  On success the output starts with "@layer globals {" and           *)
(* "  :root {" and ends with the "}" of the layer; the base :root block    *)
(* holds the primitive groups and, after all of them, the light-mode       *)
(* tokens; the "@media (prefers-color-scheme: dark)" block, with its       *)
(* nested :root, follows the closed base block if and only if the darkMode *)
(* table is not empty.                                                     *)
(***************************************************************************)
MediaLine == TextLine("  @media (prefers-color-scheme: dark) {")

IsEntryOf(table, e) == \E i \in DOMAIN table : table[i] = e

C9_Nesting ==
    pc = "done" =>
        /\ Len(output) >= 4
        /\ output[1] = TextLine("@layer globals {")
        /\ output[2] = TextLine("  :root {")
        /\ output[Len(output)] = TextLine("}")
        /\ \A i \in 1..(Len(output) - 1) : output[i] # TextLine("}")
        \* nothing but declarations and blank lines inside the base block
        /\ \A i \in 3..(BaseEnd(output) - 1) : IsDecl(output[i]) \/ output[i] = BlankLine
        \* the primitives first, then the light-mode tokens
        /\ Len(BaseDecls(output)) >= EmittedPrimitives
        /\ \A i \in DOMAIN PrimitiveDecls(output) :
              IsEntryOf(processed.primitives, PrimitiveDecls(output)[i])
        /\ \A i \in DOMAIN LightDecls(output) :
              IsEntryOf(processed.lightMode, LightDecls(output)[i])
        \* the dark block
        /\ (Count(output, MediaLine) = 1) <=> (processed.darkMode # <<>>)
        /\ Count(output, MediaLine) <= 1
        /\ processed.darkMode = <<>> => BaseEnd(output) = Len(output) - 1
        /\ processed.darkMode # <<>> =>
              /\ output[BaseEnd(output) + 1] = BlankLine
              /\ output[BaseEnd(output) + 2] = MediaLine
              /\ output[BaseEnd(output) + 3] = TextLine("    :root {")
              /\ output[Len(output) - 2] = TextLine("    }")
              /\ output[Len(output) - 1] = TextLine("  }")
              /\ \A i \in (BaseEnd(output) + 4)..(Len(output) - 3) :
                    \/ output[i] = BlankLine
                    \/ /\ IsDecl(output[i]) /\ output[i].indent = 6
                       /\ IsEntryOf(processed.darkMode,
                                    [name |-> output[i].name, value |-> output[i].value])

\* a successful run that emitted a primitive, a light-mode token and the
\* dark block with a token in it
C9_Witness ==
    /\ pc = "done"
    /\ outputFile = output
    /\ EmittedPrimitives > 0
    /\ LightDecls(output) # <<>>
    /\ DarkDecls(output) # <<>>
    /\ Count(output, MediaLine) = 1

(***************************************************************************)
(* C5.  Every entry of the three tables is either emitted exactly once (a  *)
(* primitive among the primitive groups, a light-mode token among the      *)
(* light-mode tokens of the base block, a dark-mode token in the dark      *)
(* block) or reported by the warning 'Variable no agrupada'.               *)
(***************************************************************************)
Reported(n) == \E i \in DOMAIN warnings : warnings[i] = n

C5_EmittedOnceOrReported ==
    pc = "done" =>
        /\ \A i \in DOMAIN processed.primitives :
              \/ Count(PrimitiveDecls(output), processed.primitives[i]) = 1
              \/ Reported(processed.primitives[i].name)
        /\ \A i \in DOMAIN processed.lightMode :
              \/ Count(LightDecls(output), processed.lightMode[i]) = 1
              \/ Reported(processed.lightMode[i].name)
        /\ \A i \in DOMAIN processed.darkMode :
              \/ Count(DarkDecls(output), processed.darkMode[i]) = 1
              \/ Reported(processed.darkMode[i].name)

(***************************************************************************)
(* C4.  The primitive groups are emitted as contiguous blocks: the known   *)
(* colour families in their fixed order, then the other colour families in *)
(* alphabetical order, then container, header, font-family, border, radii, *)
(* spacing, size, font-size, surface, text, icon, outline.  So every       *)
(* color-* declaration precedes every border declaration, and every border *)
(* declaration every spacing declaration.                                  *)
(***************************************************************************)
C4_KnownColors ==
    <<"default", "gray", "primary", "secondary", "tertiary", "highlight", "accent">>

C4_OtherGroups ==
    << <<"container">>, <<"header">>, <<"font", "family">>, <<"border">>,
       <<"radii">>, <<"spacing">>, <<"size">>, <<"font", "size">>,
       <<"surface">>, <<"text">>, <<"icon">>, <<"outline">> >>

IsColorGroup(g) == Len(g) = 2 /\ g[1] = "color"

\* group g is to be emitted before group h
C4_Before(g, h) ==
    IF IsColorGroup(g) /\ IsColorGroup(h)
    THEN IF g[2] \in Range(C4_KnownColors) /\ h[2] \in Range(C4_KnownColors)
         THEN IndexOf(C4_KnownColors, g[2]) < IndexOf(C4_KnownColors, h[2])
         ELSE IF g[2] \in Range(C4_KnownColors) THEN TRUE
         ELSE IF h[2] \in Range(C4_KnownColors) THEN FALSE
         ELSE TokRank(g[2]) < TokRank(h[2])
    ELSE IF IsColorGroup(g) THEN TRUE
    ELSE IF IsColorGroup(h) THEN FALSE
    ELSE IndexOf(C4_OtherGroups, g) < IndexOf(C4_OtherGroups, h)

C4_GroupOrder ==
    pc = "done" =>
        LET decls == PrimitiveDecls(output) IN
        /\ \A i, j \in DOMAIN decls :
              i < j /\ groupOf(decls[i].name) # groupOf(decls[j].name)
                 => C4_Before(groupOf(decls[i].name), groupOf(decls[j].name))
        /\ \A i, j \in DOMAIN BaseDecls(output) :
              LET a == BaseDecls(output)[i].name
                  b == BaseDecls(output)[j].name
              IN  \/ StartsWithDash(a, <<"color">>) /\ StartsWithStr(b, <<"border">>)
                  \/ StartsWithStr(a, <<"border">>) /\ StartsWithStr(b, <<"spacing">>)
                  \/ StartsWithDash(a, <<"color">>) /\ StartsWithStr(b, <<"spacing">>)
                  => i < j

\* a known colour family and two families that are not in the list were
\* emitted, the two in alphabetical order although declared in the other
C4_Witness ==
    /\ pc = "done"
    /\ \E i, j \in DOMAIN processed.primitives :
          /\ i < j
          /\ groupOf(processed.primitives[i].name) = <<"color", "brand">>
          /\ groupOf(processed.primitives[j].name) = <<"color", "aqua">>
    /\ \E i, j, k \in DOMAIN PrimitiveDecls(output) :
          /\ i < j /\ j < k
          /\ groupOf(PrimitiveDecls(output)[i].name) = <<"color", "accent">>
          /\ groupOf(PrimitiveDecls(output)[j].name) = <<"color", "aqua">>
          /\ groupOf(PrimitiveDecls(output)[k].name) = <<"color", "brand">>

(***************************************************************************)
(* C1.  Mode routing.  A raw declaration B-light-mode (B-dark-mode) whose  *)
(* simplified base name starts with surface, text, icon or outline is      *)
(* emitted as --simplifyName(B) in the base :root block (in the dark       *)
(* block), with every var(--X) of its value rewritten to                   *)
(* var(--simplifyName(X)); no light-mode value is emitted in the dark      *)
(* block and no dark-mode value among the light-mode tokens.               *)
(***************************************************************************)
IsModeCategory(name) ==
    \E c \in Range(modeCategories) : name # <<>> /\ StartsWithStr(name, <<c>>)

\* the declaration a raw mode declaration is emitted as
C1_Emitted(e) ==
    [name |-> simplifyName(DropLast(e.name, 2)),
     value |-> IF e.value.kind = "var" THEN VarRef(simplifyName(e.value.ref))
               ELSE e.value]

C1_Routed(e) == IsModeCategory(simplifyName(DropLast(e.name, 2)))

\* every token of a block comes from a raw declaration of the block's mode
C1_NoCrossing ==
    /\ \A i \in DOMAIN LightDecls(output) :
          \E j \in DOMAIN variables :
             IsLightMode(variables[j].name) /\ C1_Emitted(variables[j]) = LightDecls(output)[i]
    /\ \A i \in DOMAIN DarkDecls(output) :
          \E j \in DOMAIN variables :
             IsDarkMode(variables[j].name) /\ C1_Emitted(variables[j]) = DarkDecls(output)[i]

\* The claim as stated: every such raw declaration is emitted with its own value.
C1_EveryModeDeclarationEmitted ==
    pc = "done" =>
        /\ \A j \in DOMAIN variables :
              /\ IsLightMode(variables[j].name) /\ C1_Routed(variables[j])
                    => Count(LightDecls(output), C1_Emitted(variables[j])) >= 1
              /\ IsDarkMode(variables[j].name) /\ C1_Routed(variables[j])
                    => Count(DarkDecls(output), C1_Emitted(variables[j])) >= 1
        /\ C1_NoCrossing

\* entry j is the last entry of the raw table, among those of its mode, that
\* is emitted under its simplified base name
C1_Wins(j) ==
    \A k \in DOMAIN variables :
        /\ k > j
        /\ IsLightMode(variables[k].name) = IsLightMode(variables[j].name)
        /\ IsDarkMode(variables[k].name) = IsDarkMode(variables[j].name)
        => C1_Emitted(variables[k]).name # C1_Emitted(variables[j]).name

\* C1 as amended: of the raw declarations of one mode that share a
\* simplified base name, the one that stands last in the raw table is the
\* one emitted, exactly once; the others are not.
C1_LastModeDeclarationEmitted ==
    pc = "done" =>
        /\ \A j \in DOMAIN variables :
              /\ IsLightMode(variables[j].name) /\ C1_Routed(variables[j]) /\ C1_Wins(j)
                    => /\ Count(LightDecls(output), C1_Emitted(variables[j])) = 1
                       /\ CountName(LightDecls(output), C1_Emitted(variables[j]).name) = 1
              /\ IsDarkMode(variables[j].name) /\ C1_Routed(variables[j]) /\ C1_Wins(j)
                    => /\ Count(DarkDecls(output), C1_Emitted(variables[j])) = 1
                       /\ CountName(DarkDecls(output), C1_Emitted(variables[j]).name) = 1
        /\ C1_NoCrossing

\* two light-mode declarations with one simplified base name and a dark-mode
\* declaration, all three with var() references to rewrite
C1_Witness ==
    /\ pc = "done"
    /\ \E i, j, k \in DOMAIN variables :
          /\ i < j
          /\ IsLightMode(variables[i].name) /\ IsLightMode(variables[j].name)
          /\ C1_Emitted(variables[i]).name = C1_Emitted(variables[j]).name
          /\ C1_Emitted(variables[i]).value # C1_Emitted(variables[j]).value
          /\ C1_Emitted(variables[j]).value # variables[j].value
          /\ Count(LightDecls(output), C1_Emitted(variables[j])) = 1
          /\ IsDarkMode(variables[k].name)
          /\ Count(DarkDecls(output), C1_Emitted(variables[k])) = 1

(***************************************************************************)
(* C2.  When the input declares spacing-px (radii-full), the output        *)
(* declares --spacing-px (--radii-full) with exactly the raw non-rem value *)
(* of that declaration, whether or not the -rem sibling exists; every      *)
(* other length primitive B that has a B-rem sibling is emitted under      *)
(* simplifyName(B) with the value of B-rem, never the px value of B.       *)
(***************************************************************************)
Rem(name) == name \o <<"rem">>

\* a length primitive of the rem rule: a raw name with a -rem sibling that is
\* neither a mode token, nor skipped, nor one of the px exceptions, nor a
\* font-size or typography-font name
C2_Converted(name) ==
    /\ Has(variables, Rem(name))
    /\ ~IsLightMode(name) /\ ~IsDarkMode(name) /\ ~IsSkipped(name)
    /\ name \notin {SpacingPx, RadiiFull}
    /\ ~StartsWithDash(name, <<"font", "size">>)
    /\ ~StartsWithDash(name, <<"typography", "font">>)

\* the value a rem-valued declaration is emitted with: a zero without unit
C2_RemValue(name) == cleanRemValue(Get(variables, Rem(name)))

\* The claim as stated.
C2_PxKeptRemPreferred ==
    pc = "done" =>
        /\ \A n \in {SpacingPx, RadiiFull} :
              Has(variables, n)
                 => Count(PrimitiveDecls(output), [name |-> n, value |-> Get(variables, n)]) = 1
        /\ \A j \in DOMAIN variables :
              C2_Converted(variables[j].name) /\ ~Reported(simplifyName(variables[j].name))
                 => Count(PrimitiveDecls(output),
                          [name |-> simplifyName(variables[j].name),
                           value |-> C2_RemValue(variables[j].name)]) = 1

\* another raw declaration is emitted under the simplified name of `name`
C2_Shadowed(name) ==
    \E k \in DOMAIN variables :
        LET other == variables[k].name IN
        /\ other \notin {name, Rem(name)}
        /\ simplifyName(IF EndsWithDash(other, <<"rem">>) THEN DropLast(other, 1) ELSE other)
              = simplifyName(name)

\* C2 as amended: spacing-px and radii-full are emitted with the raw value,
\* except that a raw value of exactly 0px is emitted as 0 when no -rem
\* sibling is declared; every other length primitive with a -rem sibling
\* whose simplified name no other declaration shares is emitted once, with
\* the value of the sibling.
C2_PxKeptUnlessLoneZero ==
    pc = "done" =>
        /\ \A n \in {SpacingPx, RadiiFull} :
              Has(variables, n)
                 => /\ Count(PrimitiveDecls(output),
                             [name |-> n,
                              value |-> IF Has(variables, Rem(n)) THEN Get(variables, n)
                                        ELSE cleanPxValue(Get(variables, n))]) = 1
                    /\ CountName(PrimitiveDecls(output), n) = 1
        /\ \A j \in DOMAIN variables :
              /\ C2_Converted(variables[j].name)
              /\ ~C2_Shadowed(variables[j].name)
              /\ ~Reported(simplifyName(variables[j].name))
              => /\ Count(PrimitiveDecls(output),
                          [name |-> simplifyName(variables[j].name),
                           value |-> C2_RemValue(variables[j].name)]) = 1
                 /\ CountName(PrimitiveDecls(output), simplifyName(variables[j].name)) = 1

\* spacing-px and its -rem sibling were declared, with different values, and
\* --spacing-px was emitted with the px value
C2_Witness ==
    /\ pc = "done"
    /\ Has(variables, SpacingPx) /\ Has(variables, Rem(SpacingPx))
    /\ Get(variables, SpacingPx) # Get(variables, Rem(SpacingPx))
    /\ Count(PrimitiveDecls(output),
             [name |-> SpacingPx, value |-> Get(variables, SpacingPx)]) = 1

(***************************************************************************)
(* C3.  Zero normalization.  Every emitted declaration (primitive,         *)
(* light-mode or dark-mode) whose value is taken from a raw value of       *)
(* exactly 0rem or exactly 0px carries the value 0.  Every emitted value   *)
(* is a raw value or a synthesized font size, so the claim says that no    *)
(* declaration is emitted with the value 0px or 0rem.                      *)
(***************************************************************************)
C3_ZeroHasNoUnit ==
    pc = "done" =>
        \A i \in DOMAIN DeclsOf(output) :
            DeclsOf(output)[i].value \notin {Lit("0px"), Lit("0rem")}

(***************************************************************************)
(* C8.  For viewport bounds minWidthPx, maxWidthPx and a font-size pair    *)
(* (min, max) in rem the emitted value is                                  *)
(* clamp(<min>rem, <Y>rem + <S>vw, <max>rem) with                          *)
(* slope = (max - min) / (maxWidthPx/16 - minWidthPx/16),                  *)
(* Y = -(minWidthPx/16) * slope + min and S = slope * 100, both rounded to *)
(* four decimal places.  With D = maxWidthPx - minWidthPx and min, max in  *)
(* thousandths, 10^4 * Y = 10 * (min*D - minWidthPx*(max - min)) / D and   *)
(* 10^4 * S = 16000 * (max - min) / D; y and s are the nearest integers.   *)
(***************************************************************************)
C8_MinWidth == parseFloatQuoted(Get(variables, ViewportMinWidth))
C8_MaxWidth == parseFloatQuoted(Get(variables, ViewportMaxWidth))

C8_NumericViewport ==
    /\ C8_MinWidth.k = "num" /\ C8_MaxWidth.k = "num"
    /\ C8_MinWidth.num # C8_MaxWidth.num

\* y and s of the clamp value v are the exact Y and S rounded to 4 decimals
C8_Rounded(v) ==
    LET minW == C8_MinWidth.num
        D == C8_MaxWidth.num - minW
    IN  /\ v.y.k = "num" /\ v.y.den = 10000
        /\ v.s.k = "num" /\ v.s.den = 10000
        /\ 2 * Abs(v.y.num * D - 10 * (v.min * D - minW * (v.max - v.min))) <= Abs(D)
        /\ 2 * Abs(v.s.num * D - 16000 * (v.max - v.min)) <= Abs(D)

\* a min line of the input with its max line within the look-ahead, both
\* non-zero: a font-size pair
C8_Pair(i, j) ==
    /\ i \in DOMAIN inputFile /\ j \in DOMAIN inputFile
    /\ IsStepLine(inputFile[i], "min")
    /\ IsStepLine(inputFile[j], "max")
    /\ findMax(inputFile, i, i + 1, parseInt(inputFile[i].name[5]))
          = [hasMax |-> TRUE, max |-> RemNumber[inputFile[j].value.text]]
    /\ RemNumber[inputFile[i].value.text] # 0
    /\ RemNumber[inputFile[j].value.text] # 0

\* every emitted clamp lies between the two sizes of a pair of the input and
\* follows the formula
C8_Formula ==
    \A k \in DOMAIN PrimitiveDecls(output) :
        LET v == PrimitiveDecls(output)[k].value IN
        v.kind = "clamp"
           => /\ \E i, j \in DOMAIN inputFile :
                    /\ C8_Pair(i, j)
                    /\ v.min = RemNumber[inputFile[i].value.text]
                    /\ v.max = RemNumber[inputFile[j].value.text]
              /\ C8_Rounded(v)

C8_Example(y, s) ==
    C8_MinWidth.num = 320 /\ C8_MaxWidth.num = 1280
       => \A k \in DOMAIN PrimitiveDecls(output) :
             LET v == PrimitiveDecls(output)[k].value IN
             v.kind = "clamp" /\ v.min = 1125 /\ v.max = 1250
                => v = ClampValue(1125, Fixed4(y), Fixed4(s), 1250)

\* The claim as stated, with its example 1.0786rem + 0.1905vw.
C8_ClampAsStated ==
    pc = "done" /\ C8_NumericViewport => C8_Formula /\ C8_Example(10786, 1905)

\* C8 as amended: the formula holds, and for 320, 1280, 1.125, 1.25 the
\* value is clamp(1.125rem, 1.0833rem + 0.2083vw, 1.25rem).
C8_ClampFormula ==
    pc = "done" /\ C8_NumericViewport => C8_Formula /\ C8_Example(10833, 2083)

\* the pair 1.125rem, 1.25rem was declared for the viewport 320..1280 and
\* font-size-step-0 was emitted as its clamp
C8_Witness ==
    /\ pc = "done"
    /\ C8_NumericViewport
    /\ C8_MinWidth.num = 320 /\ C8_MaxWidth.num = 1280
    /\ \E i, j \in DOMAIN inputFile :
          /\ C8_Pair(i, j)
          /\ inputFile[i].value = Lit("1.125rem") /\ inputFile[j].value = Lit("1.25rem")
    /\ Count(PrimitiveDecls(output),
             [name |-> StepName(0),
              value |-> ClampValue(1125, Fixed4(10833), Fixed4(2083), 1250)]) = 1

(***************************************************************************)
(* C11.  After processVariables a variable name is a key of at most one of *)
(* the three tables primitives, lightMode and darkMode.                    *)
(***************************************************************************)
C11_TablesWith(k) ==
    { t \in {"primitives", "lightMode", "darkMode"} : Has(processed[t], k) }

C11_AllKeys ==
    Keys(processed.primitives) \cup Keys(processed.lightMode)
       \cup Keys(processed.darkMode)

\* The claim as stated.
C11_KeyInOneTable ==
    pc = "done" => \A k \in C11_AllKeys : Cardinality(C11_TablesWith(k)) <= 1

\* the key under which a raw declaration that is no mode variable is filed
C11_PrimitiveKey(name) ==
    simplifyName(IF EndsWithDash(name, <<"rem">>) THEN DropLast(name, 1) ELSE name)

\* a key that processFontSizes synthesizes
C11_IsStepKey(k) == Len(k) >= 4 /\ SubSeq(k, 1, 3) = <<"font", "size", "step">>

\* C11 as amended: every raw declaration is filed in at most one table, the
\* one of its suffix.  The keys of lightMode are the simplified base names of
\* the raw -light-mode declarations, those of darkMode the simplified base
\* names of the raw -dark-mode declarations, and every key of primitives is
\* the simplified name of a raw declaration without a mode suffix or a
\* synthesized font-size-step name.  (One key may stand in several tables.)
C11_DeclarationInOneTable ==
    pc = "done" =>
        /\ Keys(processed.lightMode) =
              { simplifyName(DropLast(n, 2)) : n \in { m \in Keys(variables) : IsLightMode(m) } }
        /\ Keys(processed.darkMode) =
              { simplifyName(DropLast(n, 2)) : n \in { m \in Keys(variables) : IsDarkMode(m) } }
        /\ \A k \in Keys(processed.primitives) :
              \/ C11_IsStepKey(k)
              \/ \E n \in Keys(variables) :
                    /\ ~IsLightMode(n) /\ ~IsDarkMode(n) /\ ~IsSkipped(n)
                    /\ C11_PrimitiveKey(n) = k

\* one token was declared for both modes and as a primitive, and its
\* simplified name is a key of all three tables
C11_Witness ==
    /\ pc = "done"
    /\ \E k \in C11_AllKeys : Cardinality(C11_TablesWith(k)) = 3
    /\ \E n \in Keys(variables) : IsDarkMode(n)
    /\ \E n \in Keys(variables) : IsLightMode(n)

(***************************************************************************)
(* C12.  simplifyName is idempotent: for every name x,                     *)
(* simplifyName(simplifyName(x)) = simplifyName(x).  The names are those   *)
(* a run passes to simplifyName: the base names of the raw declarations    *)
(* and the names referred to in mode values.                               *)
(***************************************************************************)
C12_Arguments ==
    { DropLast(n, 2) : n \in { m \in Keys(variables) : IsModeVariable(m) } }
    \cup { variables[i].value.ref :
             i \in { j \in DOMAIN variables :
                       IsModeVariable(variables[j].name) /\ variables[j].value.kind = "var" } }
    \cup { (IF EndsWithDash(n, <<"rem">>) THEN DropLast(n, 1) ELSE n) :
             n \in { m \in Keys(variables) : ~IsModeVariable(m) /\ ~IsSkipped(m) } }

C12_Idempotent(x) == simplifyName(simplifyName(x)) = simplifyName(x)

\* The claim as stated.
C12_SimplifyNameIdempotent ==
    pc = "done" => \A x \in C12_Arguments : C12_Idempotent(x)

\* the prefixes simplifyName halves
C12_Doubled == {"border", "size", "surface", "text", "icon", "outline"}

\* x starts with <p>-<p>-<p>- for one of them
C12_Tripled(x) == \E p \in C12_Doubled : StartsWithDash(x, <<p, p, p>>)

\* C12 as amended: simplifyName removes one repetition of a doubled prefix,
\* so it is idempotent exactly on the names that do not start with a prefix
\* written three times.
C12_IdempotentUnlessTripled ==
    pc = "done" => \A x \in C12_Arguments : C12_Idempotent(x) <=> ~C12_Tripled(x)

\* the run simplified a name with a doubled prefix and one with a tripled
\* prefix
C12_Witness ==
    /\ pc = "done"
    /\ \E x \in C12_Arguments : simplifyName(x) # x /\ ~C12_Tripled(x)
    /\ \E x \in C12_Arguments : C12_Tripled(x)

(***************************************************************************)
(* C13.  For every declaration emitted in the output, in the primitives as *)
(* well as in the light-mode and dark-mode tokens, every var(--X) of its   *)
(* value is emitted as var(--simplifyName(X)): an emitted reference is the *)
(* rewritten reference of a raw declaration that is emitted under that     *)
(* name.                                                                   *)
(***************************************************************************)
\* the name a raw declaration is emitted under
C13_EmittedName(n) ==
    IF IsModeVariable(n) THEN simplifyName(DropLast(n, 2)) ELSE C11_PrimitiveKey(n)

C13_ReferencesSimplified ==
    pc = "done" =>
        \A i \in DOMAIN DeclsOf(output) :
            LET d == DeclsOf(output)[i] IN
            d.value.kind = "var"
               => \E j \in DOMAIN variables :
                     /\ C13_EmittedName(variables[j].name) = d.name
                     /\ variables[j].value.kind = "var"
                     /\ d.value = VarRef(simplifyName(variables[j].value.ref))

(***************************************************************************)
(* C14.  Within one category (surface, text, icon, outline) the mode       *)
(* tokens whose suffix is not in the category's list are emitted after all *)
(* listed ones; among them, tokens with the same base name stand in the    *)
(* order xxx or xxx-default, xxx-hover, xxx-active, and tokens with        *)
(* different base names in the alphabetical order of the base names.       *)
(***************************************************************************)
C14_Suffix(name) == removeFirst(name, categoryOf(name))

C14_Known(name) ==
    IndexOf(categoryOrder(categoryOf(name)), C14_Suffix(name)) # 0 - 1

\* default, hover, active
C14_StateIndex(name) ==
    LET state == stateOf(C14_Suffix(name))
    IN  CASE state = "default" -> 0 [] state = "hover" -> 1 [] state = "active" -> 2

\* a stands before b, both of one category
C14_InOrder(a, b) ==
    /\ ~(~C14_Known(a) /\ C14_Known(b))
    /\ ~C14_Known(a) /\ ~C14_Known(b)
          => IF baseOf(C14_Suffix(a)) = baseOf(C14_Suffix(b))
             THEN C14_StateIndex(a) <= C14_StateIndex(b)
             ELSE localeCompare(baseOf(C14_Suffix(a)), baseOf(C14_Suffix(b))) < 0

C14_Ordered(decls) ==
    \A i, j \in DOMAIN decls :
        i < j /\ categoryOf(decls[i].name) = categoryOf(decls[j].name)
           => C14_InOrder(decls[i].name, decls[j].name)

C14_UnknownTokensOrdered ==
    pc = "done" => C14_Ordered(LightDecls(output)) /\ C14_Ordered(DarkDecls(output))

(***************************************************************************)
(* C15.  After deduplication and the ascending sort by min, the font-size  *)
(* pairs are numbered relative to the first pair whose originalStep is 0:  *)
(* the pair k positions before it is emitted as font-size-step-(-k), the   *)
(* zero pair as font-size-step-0, and every pair after it under its own    *)
(* original step number.                                                   *)
(***************************************************************************)
C15_Pairs == sortedSteps(inputFile)

C15_Zeros == { i \in DOMAIN C15_Pairs : C15_Pairs[i].originalStep = 0 }

\* the position of the first pair whose originalStep is 0
C15_Zero == CHOOSE z \in C15_Zeros : \A y \in C15_Zeros : z <= y

\* the number the rule gives the pair at position i
C15_Number(i) ==
    IF C15_Zeros # {} /\ i < C15_Zero THEN 0 - (C15_Zero - i)
    ELSE IF C15_Zeros # {} /\ i = C15_Zero THEN 0
    ELSE C15_Pairs[i].originalStep

C15_Name(i) ==
    IF C15_Number(i) < 0
    THEN <<"font", "size", "step", "", ToString(0 - C15_Number(i))>>
    ELSE <<"font", "size", "step", ToString(C15_Number(i))>>

\* the pair has a bound that is not 0: the code writes an entry for it
C15_Written(i) ==
    C15_Pairs[i].min # 0 \/ (C15_Pairs[i].hasMax /\ C15_Pairs[i].max # 0)

\* the value the code writes for a pair
C15_Value(i) ==
    LET data == C15_Pairs[i] IN
    IF data.min # 0 /\ data.hasMax /\ data.max # 0
    THEN generateClamp(C8_MinWidth, C8_MaxWidth, data.min, data.max)
    ELSE IF data.min # 0 THEN RemValue(data.min)
    ELSE RemValue(data.max)

C15_StepDecls ==
    { i \in DOMAIN PrimitiveDecls(output) :
         C11_IsStepKey(PrimitiveDecls(output)[i].name) }

C15_Last(i) ==
    \A j \in DOMAIN C15_Pairs : j > i /\ C15_Written(j) => C15_Name(j) # C15_Name(i)

C16_Final(i) ==
    \A j \in DOMAIN C15_Pairs : j > i => C15_Name(j) # C15_Name(i)

C16_ClampOrBound ==
    pc = "done" /\ C8_NumericViewport =>
        \A i \in DOMAIN C15_Pairs :
            C16_Final(i) =>
               \E k \in DOMAIN PrimitiveDecls(output) :
                  LET d == PrimitiveDecls(output)[k] IN
                  /\ d.name = C15_Name(i)
                  /\ IF C15_Pairs[i].hasMax
                     THEN /\ d.value.kind = "clamp"
                          /\ d.value.min = C15_Pairs[i].min
                          /\ d.value.max = C15_Pairs[i].max
                     ELSE d.value = RemValue(C15_Pairs[i].min)

(***************************************************************************)
(* C17.  In the non-rem fallback, every variable whose simplified name     *)
(* starts with font-family- and whose value is a reference                 *)
(* var(--typography-font-Y) is emitted with the raw value of               *)
(* typography-font-Y, looked up once; this holds for a raw name            *)
(* typography-font-Z as well as for a raw name font-family-Z.  The         *)
(* variables looked at are those no later variable shares the simplified   *)
(* name with, and whose reference names a declared, non-empty variable.    *)
(***************************************************************************)
C17_Fallback(name) ==
    /\ ~EndsWithDash(name, <<"rem">>)
    /\ ~IsModeVariable(name)
    /\ ~IsSkipped(name)
    /\ ~Has(variables, name \o <<"rem">>)

C17_LastOfName(i) ==
    \A j \in DOMAIN variables :
        j > i /\ C17_Fallback(variables[j].name)
            => simplifyName(variables[j].name) # simplifyName(variables[i].name)

C17_Case(i) ==
    /\ C17_Fallback(variables[i].name)
    /\ C17_LastOfName(i)
    /\ StartsWithDash(simplifyName(variables[i].name), <<"font", "family">>)
    /\ variables[i].value.kind = "var"
    /\ StartsWithDash(variables[i].value.ref, <<"typography", "font">>)
    /\ Truthy(Get(variables, variables[i].value.ref))

C17_FontFamilyResolved ==
    pc = "done" =>
        \A i \in DOMAIN variables :
            C17_Case(i) =>
                \E k \in DOMAIN PrimitiveDecls(output) :
                    /\ PrimitiveDecls(output)[k].name = simplifyName(variables[i].name)
                    /\ PrimitiveDecls(output)[k].value
                          = Get(variables, variables[i].value.ref)

(***************************************************************************)
(* C18.  In the emitted radii group any two entries whose suffixes are     *)
(* both in the list xs, sm, md, lg, xl, 2xl, 3xl, 4xl, full appear in the  *)
(* order of that list, whatever other radii entries the group contains;    *)
(* likewise in the border group for the list xs, sm, md, lg, xl.           *)
(***************************************************************************)
C18_RankOrdered(order, group) ==
    \A i, j \in DOMAIN PrimitiveDecls(output) :
        LET a == PrimitiveDecls(output)[i].name
            b == PrimitiveDecls(output)[j].name
        IN  /\ i < j
            /\ sizeIndex(order, a, group) # 0 - 1
            /\ sizeIndex(order, b, group) # 0 - 1
            => sizeIndex(order, a, group) <= sizeIndex(order, b, group)

C18_RankedInRankOrder ==
    pc = "done" =>
        /\ C18_RankOrdered(radiiOrder, "radii")
        /\ C18_RankOrdered(borderOrder, "border")

(***************************************************************************)
(* C19.  Within the base :root block of the output no variable name is     *)
(* declared more than once: a primitive and a light-mode token are never   *)
(* both emitted under the same simplified name.                            *)
(***************************************************************************)
C19_BaseNamesDistinct ==
    pc = "done" =>
        \A i, j \in DOMAIN BaseDecls(output) :
            i # j => BaseDecls(output)[i].name # BaseDecls(output)[j].name

(***************************************************************************)
(* C20.  processFontSizes gives distinct output names to distinct          *)
(* deduplicated pairs: no two unique (min, max) pairs are mapped to the    *)
(* same font-size-step-<N> name, so no synthesized entry overwrites        *)
(* another.                                                                *)
(***************************************************************************)
C20_OutputName(i) ==
    StepName(outputStepOf(i - 1, step0IndexOf(C15_Pairs), C15_Pairs[i]))

C20_NamesDistinct ==
    pc = "done" /\ C8_NumericViewport =>
        \A i, j \in DOMAIN C15_Pairs :
            i # j => C20_OutputName(i) # C20_OutputName(j)

(***************************************************************************)
(* C21.  Every declaration placed in the primitives table has a value that *)
(* is a string: when radii-full-rem, spacing-px-rem or a                   *)
(* typography-font-*-rem declaration is present and its base declaration   *)
(* is absent from the input, no entry with the undefined value is stored   *)
(* or emitted.                                                             *)
(***************************************************************************)
C21_NoUndefinedValue ==
    pc = "done" =>
        /\ \A i \in DOMAIN processed.primitives :
              processed.primitives[i].value # Undefined
        /\ \A k \in DOMAIN PrimitiveDecls(output) :
              PrimitiveDecls(output)[k].value # Undefined

====
